---- MODULE Spec2Model ----
(***************************************************************************)
(* nilearn/input_data/nifti_spheres_masker.py                              *)
(*                                                                         *)
(* _signals_from_seeds (the per-seed sphere / nearest-voxel membership,    *)
(* the mask intersection, the emptiness check and the per-timepoint mean)  *)
(* and the NiftiSpheresMasker estimator (fit, fit_transform, transform).   *)
(*                                                                         *)
(* Numbers are exact integers; a mean is an exact fraction <<num, den>> in *)
(* lowest terms.  Python's None is the empty tuple << >> and a present     *)
(* optional value x is <<x>>.  Arrays indexed from 0 in the source keep    *)
(* their 0-based voxel indices; the seed list and the time axis are TLA+   *)
(* sequences (1-based), and the index the source prints is position - 1.   *)
(***************************************************************************)
EXTENDS Integers, Sequences, FiniteSets

\* ------------------------------------------------------------------ bounds
MaxSeeds == 3
MaxParamSeeds == 2
MaxDim == 2
MaxT == 2
MaxRadius == 2
MaxCoord == 1
FarCoord == 9

\* ------------------------------------------------------- python's None
None == << >>
Some(x) == <<x>>

\* ------------------------------------------------------------ arithmetic
Abs(n) == IF n < 0 THEN -n ELSE n

RECURSIVE Gcd(_, _)
Gcd(a, b) == IF b = 0 THEN a ELSE Gcd(b, a % b)

\* the exact quotient n / d (d > 0) in lowest terms
Ratio(n, d) ==
    LET g == Gcd(Abs(n), d)
    IN  <<n \div g, d \div g>>

RECURSIVE SumOver(_, _)
SumOver(S, f) ==
    IF S = {} THEN 0
    ELSE LET x == CHOOSE y \in S : TRUE
         IN  f[x] + SumOver(S \ {x}, f)

\* ------------------------------------------------------------ the images
\* affine: the 4x4 matrix of niimg.get_affine(), as rows
AffIdentity == << <<1,0,0,0>>, <<0,1,0,0>>, <<0,0,1,0>>, <<0,0,0,1>> >>
AffScale2   == << <<2,0,0,0>>, <<0,2,0,0>>, <<0,0,2,0>>, <<0,0,0,1>> >>
AffShift    == << <<1,0,0,1>>, <<0,1,0,0>>, <<0,0,1,-1>>, <<0,0,0,1>> >>
AffFlipSwap == << <<0,-1,0,1>>, <<1,0,0,0>>, <<0,0,2,0>>, <<0,0,0,1>> >>
AffSingular == << <<0,0,0,0>>, <<0,0,0,0>>, <<0,0,0,0>>, <<0,0,0,1>> >>

\* np.indices(shape[:3]): the voxel indices of a grid of shape (X, Y, Z, T)
Indices(shape) ==
    { <<i, j, k>> : i \in 0..(shape[1] - 1), j \in 0..(shape[2] - 1),
                    k \in 0..(shape[3] - 1) }

\* niimg.get_data(): the 4D array, volume[x, y, z, t]; two synthetic volumes
GetData(niimg) ==
    [v \in Indices(niimg.shape) |->
        [t \in 1..niimg.shape[4] |->
            IF niimg.vol = "ramp"
            THEN 1 + v[1] + 2 * v[2] + 4 * v[3] + 8 * (t - 1)
            ELSE 3 * ((v[1] + v[2] + v[3]) % 2) - t * (v[1] + 1)]]

\* the boolean mask array after check_niimg / resample_img / _load_mask_img
LoadMask(mask_img, shape) ==
    [v \in Indices(shape) |->
        CASE mask_img[1] = "corner"    -> v = <<0, 0, 0>>
          [] mask_img[1] = "notCorner" -> v # <<0, 0, 0>>
          [] OTHER                     -> TRUE]

\* --------------------------------------------------- _signals_from_seeds
\* coords = tensordot(affine, vstack((indices, ones)))[:3]
Coords(affine, shape) ==
    [v \in Indices(shape) |->
        LET h == <<v[1], v[2], v[3], 1>>
        IN  [r \in 1..3 |-> affine[r][1] * h[1] + affine[r][2] * h[2]
                          + affine[r][3] * h[3] + affine[r][4] * h[4]]]

\* seed[:, None, None, None] broadcast against the 3 coordinate rows: a seed
\* of length 3 pairs row r with seed[r], a seed of length 1 is repeated, any
\* other length does not broadcast
Broadcasts(seed) == Len(seed) \in {1, 3}
SeedAt(seed, r) == IF Len(seed) = 1 THEN seed[1] ELSE seed[r]

\* dist = ((coords - seed[:, None, None, None]) ** 2).sum(axis=0)
Dist(coords, seed) ==
    [v \in DOMAIN coords |->
        (coords[v][1] - SeedAt(seed, 1)) ^ 2 + (coords[v][2] - SeedAt(seed, 2)) ^ 2
      + (coords[v][3] - SeedAt(seed, 3)) ^ 2]

\* np.min(dist)
NpMin(dist) ==
    CHOOSE m \in { dist[v] : v \in DOMAIN dist } :
        \A v \in DOMAIN dist : m <= dist[v]

\* mutants of DistMask
DistMaskStrict(dist, radius) ==
    IF radius = None \/ radius[1] ^ 2 < NpMin(dist)
    THEN [v \in DOMAIN dist |-> dist[v] = NpMin(dist)]
    ELSE [v \in DOMAIN dist |-> dist[v] < radius[1] ^ 2]

DistMaskNoFallback(dist, radius) ==
    IF radius = None
    THEN [v \in DOMAIN dist |-> dist[v] = NpMin(dist)]
    ELSE [v \in DOMAIN dist |-> dist[v] <= radius[1] ^ 2]

DistMaskOneNearest(dist, radius) ==
    IF radius = None \/ radius[1] ^ 2 < NpMin(dist)
    THEN [v \in DOMAIN dist |->
            v = CHOOSE w \in DOMAIN dist : dist[w] = NpMin(dist)]
    ELSE [v \in DOMAIN dist |-> dist[v] <= radius[1] ^ 2]

\* the radius test: nearest voxel(s) or the closed ball
DistMask(dist, radius) ==
    IF radius = None \/ radius[1] ^ 2 < NpMin(dist)
    THEN [v \in DOMAIN dist |-> dist[v] = NpMin(dist)]
    ELSE [v \in DOMAIN dist |-> dist[v] <= radius[1] ^ 2]

\* mutant of MaskedDistMask: the mask is ignored
MaskedDistMaskIgnored(mask_img, mask, dist_mask) == dist_mask

\* if mask_img is not None: dist_mask = np.logical_and(mask, dist_mask)
MaskedDistMask(mask_img, mask, dist_mask) ==
    IF mask_img # None
    THEN [v \in DOMAIN dist_mask |-> mask[v] /\ dist_mask[v]]
    ELSE dist_mask

\* dist_mask.any()
AnyTrue(dist_mask) == \E v \in DOMAIN dist_mask : dist_mask[v]

\* the voxels a boolean array selects
Selected(dist_mask) == { v \in DOMAIN dist_mask : dist_mask[v] }

\* mutant of Mean: the sum is divided by the size of the whole grid
MeanOverGrid(data, dist_mask, T) ==
    [t \in 1..T |->
        Ratio(SumOver(Selected(dist_mask), [v \in DOMAIN data |-> data[v][t]]),
              Cardinality(DOMAIN dist_mask))]

\* np.mean(niimg.get_data()[dist_mask], axis=0)
Mean(data, dist_mask, T) ==
    [t \in 1..T |->
        Ratio(SumOver(Selected(dist_mask), [v \in DOMAIN data |-> data[v][t]]),
              Cardinality(Selected(dist_mask)))]

\* an entry of np.empty that was never written (denominator 0)
Uninit == <<0, 0>>

\* np.empty((shape[3], n_seeds))
NpEmpty(T, n_seeds) == [t \in 1..T |-> [i \in 1..n_seeds |-> Uninit]]

\* the exceptions of the module
NoError == [exc |-> "", msg |-> "", args |-> << >>]
OutOfMaskError(i) ==
    [exc |-> "ValueError", msg |-> "Seed #%i is out of the mask", args |-> <<i>>]
SeedsError ==
    [exc |-> "ValueError",
     msg |-> "Seeds must be a list of triplets of coordinates in native space.",
     args |-> << >>]
NotFittedError ==
    [exc |-> "ValueError",
     msg |-> "It seems that NiftiSpheresMasker has not been fitted. You must call fit() before calling transform().",
     args |-> << >>]
LoadError == [exc |-> "TypeError", msg |-> "check_niimgs", args |-> << >>]
BroadcastError ==
    [exc |-> "ValueError", msg |-> "operands could not be broadcast together",
     args |-> << >>]

Raised(e) == [kind |-> "error", signals |-> << >>, error |-> e]
Returned(s) == [kind |-> "signals", signals |-> s, error |-> NoError]

\* mutant of SetColumn: the columns are filled from the right
SetColumnReversed(signals, i, column) ==
    [t \in DOMAIN signals |->
        [signals[t] EXCEPT ![Len(signals[t]) + 1 - i] = column[t]]]

\* signals[:, i] = column
SetColumn(signals, i, column) ==
    [t \in DOMAIN signals |-> [signals[t] EXCEPT ![i] = column[t]]]

\* the membership of one seed after the optional mask
FinalMask(seed, niimg, radius, mask_img) ==
    MaskedDistMask(mask_img, LoadMask(mask_img, niimg.shape),
                   DistMask(Dist(Coords(niimg.affine, niimg.shape), seed), radius))

\* mutant of SeedsLoop: an empty seed is skipped and the last one is reported
RECURSIVE SeedsLoopReportLast(_, _, _, _, _, _)
SeedsLoopReportLast(seeds, pos, signals, niimg, radius, mask_img) ==
    IF pos > Len(seeds) THEN Returned(signals)
    ELSE IF ~Broadcasts(seeds[pos]) THEN Raised(BroadcastError)
    ELSE LET dist_mask == FinalMask(seeds[pos], niimg, radius, mask_img)
             rest == SeedsLoopReportLast(seeds, pos + 1, signals, niimg,
                                         radius, mask_img)
         IN  IF ~AnyTrue(dist_mask)
             THEN IF rest.kind = "error" THEN rest
                  ELSE Raised(OutOfMaskError(pos - 1))
             ELSE SeedsLoopReportLast(seeds, pos + 1,
                      SetColumn(signals, pos,
                                Mean(GetData(niimg), dist_mask, niimg.shape[4])),
                      niimg, radius, mask_img)

\* for i, seed in enumerate(seeds): ...   (pos = i + 1)
RECURSIVE SeedsLoop(_, _, _, _, _, _)
SeedsLoop(seeds, pos, signals, niimg, radius, mask_img) ==
    IF pos > Len(seeds) THEN Returned(signals)
    ELSE IF ~Broadcasts(seeds[pos]) THEN Raised(BroadcastError)
    ELSE LET dist_mask == FinalMask(seeds[pos], niimg, radius, mask_img)
         IN  IF ~AnyTrue(dist_mask)
             THEN Raised(OutOfMaskError(pos - 1))
             ELSE SeedsLoop(seeds, pos + 1,
                      SetColumn(signals, pos,
                                Mean(GetData(niimg), dist_mask, niimg.shape[4])),
                      niimg, radius, mask_img)

\* _signals_from_seeds(seeds, niimg, radius=None, mask_img=None)
SignalsFromSeeds(seeds, niimg, radius, mask_img) ==
    SeedsLoop(seeds, 1, NpEmpty(niimg.shape[4], Len(seeds)), niimg, radius,
              mask_img)

\* ------------------------------------------------------ NiftiSpheresMasker
\* mutant of SeedsValid: only the first seed is checked
SeedsValidFirstOnly(param_seeds) ==
    Len(param_seeds) = 0 \/ Len(param_seeds[1]) = 3

\* for seed in self.seeds: assert(len(seed) == 3)
SeedsValid(param_seeds) ==
    \A i \in 1..Len(param_seeds) : Len(param_seeds[i]) = 3

\* mutant of FittedSeeds: self.seeds_ is assigned before the seeds are checked
FittedSeedsEager(param_seeds, fitted) == Some(param_seeds)

\* the value of self.seeds_ after fit(): set on success, untouched on failure
\* (an object without the attribute is None here)
FittedSeeds(param_seeds, fitted) ==
    IF SeedsValid(param_seeds) THEN Some(param_seeds) ELSE fitted

\* mutant of FitError: the message carries the position of the bad seed
FitErrorNamingSeed(param_seeds) ==
    IF SeedsValid(param_seeds) THEN NoError
    ELSE [SeedsError EXCEPT
            !.args = <<(CHOOSE i \in 1..Len(param_seeds) :
                           /\ Len(param_seeds[i]) # 3
                           /\ \A j \in 1..(i - 1) : Len(param_seeds[j]) = 3) - 1>>]

\* what fit() raises
FitError(param_seeds) ==
    IF SeedsValid(param_seeds) THEN NoError ELSE SeedsError

\* mutant of CheckFitted: the check is skipped
CheckFittedSkipped(fitted) == TRUE

\* _check_fitted: hasattr(self, "seeds_")
CheckFitted(fitted) == fitted # None

\* mutant of ExtractionSeeds: transform reads self.seeds
ExtractionSeedsParam(param_seeds, fitted) == param_seeds

\* the seeds transform hands to _signals_from_seeds: self.seeds_
ExtractionSeeds(param_seeds, fitted) ==
    IF fitted = None THEN << >> ELSE fitted[1]

NoResult == [kind |-> "none", signals |-> << >>, error |-> NoError]
NoCall ==
    [op |-> "none", steps |-> << >>, error |-> NoError, seeds |-> None,
     result |-> NoResult]

\* transform(imgs), run on a masker whose attributes are the arguments;
\* `steps` lists the calls the method reached, in order.  smoothing_fwhm is
\* None (its default), so smooth_img is not called; signal.clean receives the
\* extracted matrix and is the last step.
TransformCall(op, before, param_seeds, fitted, imgs, rad, mask) ==
    IF ~CheckFitted(fitted)
    THEN [op |-> op, steps |-> before \o <<"_check_fitted">>,
          error |-> NotFittedError, seeds |-> None, result |-> NoResult]
    ELSE IF ~imgs.ok
    THEN [op |-> op, steps |-> before \o <<"_check_fitted", "check_niimgs">>,
          error |-> LoadError, seeds |-> None, result |-> NoResult]
    ELSE LET used == ExtractionSeeds(param_seeds, fitted)
             res == SignalsFromSeeds(used, imgs, rad, mask)
         IN  IF res.kind = "error"
             THEN [op |-> op,
                   steps |-> before \o <<"_check_fitted", "check_niimgs",
                                        "_signals_from_seeds">>,
                   error |-> res.error, seeds |-> Some(used), result |-> res]
             ELSE [op |-> op,
                   steps |-> before \o <<"_check_fitted", "check_niimgs",
                                        "_signals_from_seeds", "clean">>,
                   error |-> NoError, seeds |-> Some(used), result |-> res]

\* ---------------------------------------------------------------- inputs
Radii == {None} \cup { Some(r) : r \in 0..MaxRadius }

FarSeed == <<FarCoord, FarCoord, FarCoord>>

SeedListsOf(pool, most) == UNION { [1..n -> pool] : n \in 0..most }

\* seeds for calls of _signals_from_seeds: a voxel centre of the unit grids
\* that lies between two voxel centres of the grids of spacing 2, a point just
\* outside the grid, a point far outside it
ExtractSeedPool == { <<1, 0, 0>>, <<-1, 1, 0>>, FarSeed }

ExtractImages ==
    { [ok |-> TRUE, shape |-> <<sh[1], sh[2], sh[3], T>>, affine |-> a, vol |-> d] :
        sh \in { <<2, 2, 1>>, <<3, 1, 2>> }, T \in {MaxT},
        a \in { AffIdentity, AffScale2 }, d \in { "ramp", "parity" } }

MaskImgs == { None, Some("corner"), Some("notCorner") }

\* seeds for the membership of a single seed: a cube around the grid origin
MemberSeeds ==
    { <<x, y, z>> : x \in -1..MaxCoord, y \in -1..MaxCoord, z \in -1..MaxCoord }
    \cup { FarSeed }

MemberImages ==
    { [ok |-> TRUE, shape |-> <<X, Y, Z, 1>>, affine |-> a, vol |-> "ramp"] :
        X \in 1..MaxDim, Y \in 1..MaxDim, Z \in 1..MaxDim,
        a \in { AffIdentity, AffScale2, AffShift, AffFlipSwap, AffSingular } }

\* the seeds parameter of a masker: two triplets and a pair
ParamSeedPool == { <<0, 0, 0>>, FarSeed, <<1, 2>> }

TransformImages ==
    { [ok |-> TRUE, shape |-> <<2, 2, 1, 2>>, affine |-> AffIdentity, vol |-> "ramp"],
      [ok |-> FALSE, shape |-> <<1, 1, 1, 1>>, affine |-> AffIdentity, vol |-> "ramp"] }

\* ------------------------------------------------------------------ state
VARIABLES
    seeds,        \* self.seeds
    seeds_,       \* self.seeds_ (None: the attribute does not exist)
    radius,       \* self.radius
    mask_img,     \* self.mask_img
    validated,    \* history: the list the last successful fit checked
    call,         \* history: the last fit / transform / fit_transform call
    hist,         \* history: were self.seeds triplets at that call; the call before it
    f_args,       \* the arguments of a call of _signals_from_seeds
    f_pc,         \* "idle", "called" or "done"
    f_result,     \* what the call returned or raised
    m_args,       \* a single seed, an image and a radius
    m_pc,         \* "idle", "called" or "done"
    m_dist_mask,  \* dist_mask of the seed before the mask is applied
    m_result      \* _signals_from_seeds([seed], niimg, radius) without a mask

maskerVars == <<seeds, seeds_, radius, mask_img, validated, call, hist>>
extractVars == <<f_args, f_pc, f_result>>
memberVars == <<m_args, m_pc, m_dist_mask, m_result>>
vars == <<seeds, seeds_, radius, mask_img, validated, call, hist,
          f_args, f_pc, f_result, m_args, m_pc, m_dist_mask, m_result>>

NoHist == [triplets |-> TRUE, prev |-> "none", prevFailed |-> FALSE]
Remember ==
    [triplets |-> \A i \in 1..Len(seeds) : Len(seeds[i]) = 3,
     prev |-> call.op, prevFailed |-> call.error # NoError]

IdleArgs ==
    [seeds |-> << >>,
     niimg |-> [ok |-> TRUE, shape |-> <<1, 1, 1, 1>>, affine |-> AffIdentity,
                vol |-> "ramp"],
     radius |-> None, mask_img |-> None]

MaskerIdle ==
    /\ seeds = << >> /\ seeds_ = None /\ radius = None /\ mask_img = None
    /\ validated = None /\ call = NoCall /\ hist = NoHist
ExtractIdle == f_args = IdleArgs /\ f_pc = "idle" /\ f_result = NoResult
MemberIdle ==
    /\ m_args = IdleArgs /\ m_pc = "idle" /\ m_dist_mask = << >>
    /\ m_result = NoResult

\* ------------------------------------------- the estimator: Spec
\* NiftiSpheresMasker(seeds, radius, mask_img)
Init ==
    /\ seeds \in SeedListsOf(ParamSeedPool, MaxParamSeeds)
    /\ radius \in { None, Some(1) }
    /\ mask_img \in { None, Some("corner") }
    /\ seeds_ = None
    /\ validated = None
    /\ call = NoCall
    /\ hist = NoHist
    /\ ExtractIdle /\ MemberIdle

\* masker.seeds = s
SetSeeds(s) ==
    /\ seeds' = s
    /\ UNCHANGED <<seeds_, radius, mask_img, validated, call, hist>>
    /\ UNCHANGED <<extractVars, memberVars>>

\* masker.fit()
Fit ==
    /\ seeds_' = FittedSeeds(seeds, seeds_)
    /\ validated' = IF \A i \in 1..Len(seeds) : Len(seeds[i]) = 3
                    THEN Some(seeds) ELSE validated
    /\ call' = [op |-> "fit", steps |-> <<"fit">>, error |-> FitError(seeds),
                seeds |-> None, result |-> NoResult]
    /\ hist' = Remember
    /\ UNCHANGED <<seeds, radius, mask_img>>
    /\ UNCHANGED <<extractVars, memberVars>>

\* masker.transform(imgs)
Transform(imgs) ==
    /\ call' = TransformCall("transform", << >>, seeds, seeds_, imgs, radius,
                             mask_img)
    /\ hist' = Remember
    /\ UNCHANGED <<seeds, seeds_, radius, mask_img, validated>>
    /\ UNCHANGED <<extractVars, memberVars>>

\* masker.fit_transform(imgs): self.fit().transform(imgs)
FitTransform(imgs) ==
    /\ seeds_' = FittedSeeds(seeds, seeds_)
    /\ validated' = IF \A i \in 1..Len(seeds) : Len(seeds[i]) = 3
                    THEN Some(seeds) ELSE validated
    /\ call' = IF FitError(seeds) # NoError
               THEN [op |-> "fit_transform", steps |-> <<"fit">>,
                     error |-> FitError(seeds), seeds |-> None,
                     result |-> NoResult]
               ELSE TransformCall("fit_transform", <<"fit">>, seeds,
                                  FittedSeeds(seeds, seeds_), imgs, radius,
                                  mask_img)
    /\ hist' = Remember
    /\ UNCHANGED <<seeds, radius, mask_img>>
    /\ UNCHANGED <<extractVars, memberVars>>

Next ==
    \/ \E s \in SeedListsOf(ParamSeedPool, MaxParamSeeds) : SetSeeds(s)
    \/ Fit
    \/ \E imgs \in TransformImages : Transform(imgs)
    \/ \E imgs \in TransformImages : FitTransform(imgs)

Spec == Init /\ [][Next]_vars

\* ------------------------------ calls of _signals_from_seeds: SpecExtract
InitExtract ==
    /\ f_args \in [seeds : SeedListsOf(ExtractSeedPool, MaxSeeds), niimg : ExtractImages,
                   radius : Radii, mask_img : MaskImgs]
    /\ f_args.mask_img # None
          => AnyTrue(LoadMask(f_args.mask_img, f_args.niimg.shape))
    /\ f_pc = "called"
    /\ f_result = NoResult
    /\ MaskerIdle /\ MemberIdle

SignalsFromSeedsCall ==
    /\ f_pc = "called"
    /\ f_result' = SignalsFromSeeds(f_args.seeds, f_args.niimg, f_args.radius,
                                    f_args.mask_img)
    /\ f_pc' = "done"
    /\ UNCHANGED <<f_args, maskerVars, memberVars>>

NextExtract == SignalsFromSeedsCall

SpecExtract == InitExtract /\ [][NextExtract]_vars

\* ------------------------------ the membership of one seed: SpecMember
InitMember ==
    /\ m_args \in [seeds : { <<s>> : s \in MemberSeeds }, niimg : MemberImages,
                   radius : Radii, mask_img : {None}]
    /\ m_pc = "called"
    /\ m_dist_mask = << >>
    /\ m_result = NoResult
    /\ MaskerIdle /\ ExtractIdle

SeedMembership ==
    /\ m_pc = "called"
    /\ m_dist_mask' = DistMask(Dist(Coords(m_args.niimg.affine, m_args.niimg.shape),
                                    m_args.seeds[1]), m_args.radius)
    /\ m_result' = SignalsFromSeeds(m_args.seeds, m_args.niimg, m_args.radius,
                                    m_args.mask_img)
    /\ m_pc' = "done"
    /\ UNCHANGED <<m_args, maskerVars, extractVars>>

NextMember == SeedMembership

SpecMember == InitMember /\ [][NextMember]_vars

\* ----------------------------------------------- reference definitions
\* the physical centre of voxel v: the affine applied to the voxel index
RefCentre(affine, v) ==
    [r \in 1..3 |-> affine[r][4] + affine[r][1] * v[1] + affine[r][2] * v[2]
                                 + affine[r][3] * v[3]]

\* the squared distance from the centre of voxel v to the seed
RefDist2(affine, v, seed) ==
    LET c == RefCentre(affine, v)
    IN  (c[1] - seed[1]) * (c[1] - seed[1]) + (c[2] - seed[2]) * (c[2] - seed[2])
      + (c[3] - seed[3]) * (c[3] - seed[3])

RefVoxels(niimg) ==
    (0..(niimg.shape[1] - 1)) \X (0..(niimg.shape[2] - 1))
        \X (0..(niimg.shape[3] - 1))

\* the voxels nearest to the seed (every tied voxel)
RefNearest(seed, niimg) ==
    { v \in RefVoxels(niimg) :
        \A w \in RefVoxels(niimg) :
            RefDist2(niimg.affine, v, seed) <= RefDist2(niimg.affine, w, seed) }

\* no voxel centre lies within the radius
RefOutOfReach(seed, niimg, rad) ==
    \A v \in RefVoxels(niimg) : rad[1] * rad[1] < RefDist2(niimg.affine, v, seed)

\* the membership rule: nearest voxels, or the closed ball
RefMembership(seed, niimg, rad) ==
    IF rad = None \/ RefOutOfReach(seed, niimg, rad)
    THEN RefNearest(seed, niimg)
    ELSE { v \in RefVoxels(niimg) :
             RefDist2(niimg.affine, v, seed) <= rad[1] * rad[1] }

\* the voxels the supplied mask allows
RefMaskVoxels(niimg, mask) ==
    { v \in RefVoxels(niimg) : LoadMask(mask, niimg.shape)[v] }

\* the final membership: the rule, restricted to the mask when there is one
RefFinal(seed, niimg, rad, mask) ==
    IF mask = None THEN RefMembership(seed, niimg, rad)
    ELSE RefMembership(seed, niimg, rad) \cap RefMaskVoxels(niimg, mask)

\* the sum of volume[x, y, z, t] over a set of voxels
RefSum(S, niimg, t) == SumOver(S, [v \in RefVoxels(niimg) |-> GetData(niimg)[v][t]])

\* the positions of the call's seeds whose final membership is empty
EmptySeeds ==
    { i \in 1..Len(f_args.seeds) :
        RefFinal(f_args.seeds[i], f_args.niimg, f_args.radius, f_args.mask_img) = {} }

\* a matrix of shape (T, N) with every entry written
CompleteMatrix(signals, T, N) ==
    /\ DOMAIN signals = 1..T
    /\ \A t \in 1..T :
          /\ DOMAIN signals[t] = 1..N
          /\ \A i \in 1..N : signals[t][i][2] > 0

\* --------------------------------------------------------------- claims
\* C1: when some seed of the call has an empty final membership, the call
\* raises the out-of-mask error carrying the 0-based position of the first
\* such seed and returns no matrix; when none has, it returns a complete
\* (T, N) matrix.
C1_FirstEmptySeedReported ==
    f_pc = "done" =>
        IF EmptySeeds # {}
        THEN /\ f_result.kind = "error"
             /\ f_result.error.msg = "Seed #%i is out of the mask"
             /\ \E i \in EmptySeeds :
                   /\ \A j \in EmptySeeds : i <= j
                   /\ f_result.error.args = <<i - 1>>
             /\ f_result.signals = << >>
        ELSE /\ f_result.kind = "signals"
             /\ CompleteMatrix(f_result.signals, f_args.niimg.shape[4],
                               Len(f_args.seeds))

\* two seeds of the call are empty, and the first of them is not the first seed
C1_Witness ==
    /\ f_pc = "done"
    /\ Cardinality(EmptySeeds) >= 2
    /\ 1 \notin EmptySeeds
    /\ f_result.kind = "error"

\* C2: the membership computed before the mask is applied selects at least
\* one voxel, and a call without a mask does not raise.
C2_MembershipNeverEmpty ==
    m_pc = "done" =>
        /\ \E v \in RefVoxels(m_args.niimg) : m_dist_mask[v]
        /\ m_result.kind = "signals"

\* a radius is given and no voxel centre lies within it
C2_Witness ==
    /\ m_pc = "done"
    /\ m_args.radius # None
    /\ RefOutOfReach(m_args.seeds[1], m_args.niimg, m_args.radius)
    /\ Selected(m_dist_mask) # {}
    /\ m_result.kind = "signals"

\* C6: the membership before the mask is the reference rule: every voxel
\* tied for the minimum when the radius is absent or reaches no voxel centre,
\* the closed ball otherwise; a voxel at distance exactly the radius is a
\* member, and radius 0 on a voxel centre selects that voxel.
C6_MembershipIsReferenceRule ==
    m_pc = "done" =>
        LET seed == m_args.seeds[1]
            img == m_args.niimg
            rad == m_args.radius
        IN  /\ Selected(m_dist_mask) = RefMembership(seed, img, rad)
            /\ DOMAIN m_dist_mask = RefVoxels(img)
            /\ rad # None =>
                  \A v \in RefVoxels(img) :
                      RefDist2(img.affine, v, seed) = rad[1] * rad[1]
                          => m_dist_mask[v]
            /\ rad = Some(0) =>
                  \A v \in RefVoxels(img) :
                      RefCentre(img.affine, v) = [r \in 1..3 |-> seed[r]]
                          => m_dist_mask[v]

\* a radius too small to reach any voxel, and several voxels tied for nearest
C6_Witness ==
    /\ m_pc = "done"
    /\ m_args.radius # None
    /\ RefOutOfReach(m_args.seeds[1], m_args.niimg, m_args.radius)
    /\ Cardinality(Selected(m_dist_mask)) >= 2
    /\ Selected(m_dist_mask) # RefVoxels(m_args.niimg)

\* C9: the voxels selected with a radius are among the voxels selected with
\* any larger radius, nearest-voxel fallback included.
C9_RadiusMonotone ==
    (m_pc = "done" /\ m_args.radius # None) =>
        \A r2 \in m_args.radius[1]..(MaxRadius + 1) :
            Selected(m_dist_mask) \subseteq
                Selected(DistMask(Dist(Coords(m_args.niimg.affine,
                                              m_args.niimg.shape),
                                       m_args.seeds[1]), Some(r2)))

\* the smaller radius falls back to the nearest voxel and a larger one reaches
\* strictly more voxels
C9_Witness ==
    /\ m_pc = "done"
    /\ m_args.radius # None
    /\ RefOutOfReach(m_args.seeds[1], m_args.niimg, m_args.radius)
    /\ \E r2 \in (m_args.radius[1] + 1)..MaxRadius :
          /\ ~RefOutOfReach(m_args.seeds[1], m_args.niimg, Some(r2))
          /\ Selected(m_dist_mask) # RefMembership(m_args.seeds[1],
                                                   m_args.niimg, Some(r2))

\* a seed no radius of the model reaches from any voxel centre of the image
FarOutside(seed, niimg) ==
    /\ seed = FarSeed
    /\ \A v \in RefVoxels(niimg) :
          RefDist2(niimg.affine, v, seed) > (MaxRadius + 1) * (MaxRadius + 1)

\* C3 as stated: a seed far outside the volume, with any mask, makes the call
\* raise the out-of-mask error naming that seed (no earlier seed being empty).
C3_FarSeedAlwaysFails ==
    (f_pc = "done" /\ f_args.mask_img # None) =>
        \A i \in 1..Len(f_args.seeds) :
            (/\ FarOutside(f_args.seeds[i], f_args.niimg)
             /\ \A j \in 1..(i - 1) : j \notin EmptySeeds)
                => /\ f_result.kind = "error"
                   /\ f_result.error.args = <<i - 1>>

\* C3 amended: a seed far outside the volume, with a mask, selects zero
\* voxels and makes the call raise the out-of-mask error exactly when the
\* mask contains none of the grid voxels nearest to the seed; the error names
\* that seed unless an earlier seed is empty, and no matrix is returned.
C3_FarSeedFailsIffMaskExcludesNearest ==
    (f_pc = "done" /\ f_args.mask_img # None) =>
        \A i \in 1..Len(f_args.seeds) :
            FarOutside(f_args.seeds[i], f_args.niimg) =>
                LET kept == RefNearest(f_args.seeds[i], f_args.niimg)
                              \cap RefMaskVoxels(f_args.niimg, f_args.mask_img)
                    named == /\ f_result.kind = "error"
                             /\ f_result.error.args = <<i - 1>>
                IN  /\ kept = {} =>
                          /\ f_result.kind = "error"
                          /\ f_result.signals = << >>
                          /\ f_result.error.msg = "Seed #%i is out of the mask"
                          /\ (\A j \in 1..(i - 1) : j \notin EmptySeeds) => named
                    /\ kept # {} => ~named

\* the far seed follows a seed that is kept, and the call names the far seed
C3_Witness ==
    /\ f_pc = "done"
    /\ f_args.mask_img # None
    /\ Len(f_args.seeds) >= 2
    /\ FarOutside(f_args.seeds[2], f_args.niimg)
    /\ f_result.kind = "error"
    /\ f_result.error.args = <<1>>

\* C7: every entry signal[t, i] of a returned matrix is the unweighted mean
\* of volume[x, y, z, t] over the final membership of seed i; with the
\* identity affine, no radius and a seed on a voxel centre exactly that voxel
\* is selected and the column is that voxel's time series.
C7_ColumnIsMean ==
    (f_pc = "done" /\ f_result.kind = "signals") =>
        \A i \in 1..Len(f_args.seeds) : \A t \in 1..f_args.niimg.shape[4] :
            LET sel == RefFinal(f_args.seeds[i], f_args.niimg, f_args.radius,
                                f_args.mask_img)
                entry == f_result.signals[t][i]
            IN  /\ entry[2] > 0
                /\ entry[1] * Cardinality(sel) = RefSum(sel, f_args.niimg, t) * entry[2]
                /\ (/\ f_args.niimg.affine = AffIdentity
                    /\ f_args.radius = None
                    /\ f_args.seeds[i] \in RefVoxels(f_args.niimg))
                      => /\ sel = {f_args.seeds[i]}
                         /\ entry = <<GetData(f_args.niimg)[f_args.seeds[i]][t], 1>>

\* a seed whose final membership has two voxels or more, with different values
C7_Witness ==
    /\ f_pc = "done"
    /\ f_result.kind = "signals"
    /\ \E i \in 1..Len(f_args.seeds) :
          LET sel == RefFinal(f_args.seeds[i], f_args.niimg, f_args.radius,
                              f_args.mask_img)
          IN  /\ Cardinality(sel) >= 2
              /\ sel # RefVoxels(f_args.niimg)
              /\ \E v, w \in sel :
                    GetData(f_args.niimg)[v][1] # GetData(f_args.niimg)[w][1]
              /\ f_result.signals[1][i][2] > 1

\* the seed list reordered by the permutation p of its positions
Permuted(list, p) == [j \in 1..Len(list) |-> list[p[j]]]
Permutations(n) == { p \in [1..n -> 1..n] : \A a, b \in 1..n : p[a] = p[b] => a = b }

\* C8: a returned matrix has shape (T, N); column i is the signal of the i-th
\* seed alone, so another seed does not change it and reordering the seeds
\* reorders the columns the same way.
C8_ColumnsFollowSeeds ==
    (f_pc = "done" /\ f_result.kind = "signals") =>
        LET N == Len(f_args.seeds)
            T == f_args.niimg.shape[4]
        IN  /\ DOMAIN f_result.signals = 1..T
            /\ \A t \in 1..T : DOMAIN f_result.signals[t] = 1..N
            /\ \A i \in 1..N :
                  LET alone == SignalsFromSeeds(<<f_args.seeds[i]>>, f_args.niimg,
                                                f_args.radius, f_args.mask_img)
                  IN  /\ alone.kind = "signals"
                      /\ \A t \in 1..T :
                            f_result.signals[t][i] = alone.signals[t][1]
            /\ \A p \in Permutations(N) :
                  LET other == SignalsFromSeeds(Permuted(f_args.seeds, p),
                                   f_args.niimg, f_args.radius, f_args.mask_img)
                  IN  /\ other.kind = "signals"
                      /\ \A t \in 1..T : \A j \in 1..N :
                            other.signals[t][j] = f_result.signals[t][p[j]]

\* three seeds whose columns are pairwise different
C8_Witness ==
    /\ f_pc = "done"
    /\ f_result.kind = "signals"
    /\ Len(f_args.seeds) = 3
    /\ f_result.signals[1][1] # f_result.signals[1][2]
    /\ f_result.signals[1][2] # f_result.signals[1][3]
    /\ f_result.signals[1][1] # f_result.signals[1][3]

\* the last call reached _signals_from_seeds
Extracted == \E k \in 1..Len(call.steps) : call.steps[k] = "_signals_from_seeds"

\* the last call reached the image loader
Loaded == \E k \in 1..Len(call.steps) : call.steps[k] = "check_niimgs"

\* C4: extraction starts only after a fit that checked every seed to have
\* length 3; transform on a masker never fitted raises the not-fitted error
\* with no loading and no extraction; fit_transform with a malformed seed
\* fails in fit before any loading or extraction.
C4_ValidatedBeforeExtraction ==
    /\ Extracted =>
          /\ validated # None
          /\ call.seeds # None
          /\ \A i \in 1..Len(call.seeds[1]) : Len(call.seeds[1][i]) = 3
    /\ (call.op = "transform" /\ validated = None) =>
          /\ call.steps = <<"_check_fitted">>
          /\ call.error.exc = "ValueError"
          /\ call.error.msg = "It seems that NiftiSpheresMasker has not been fitted. You must call fit() before calling transform()."
          /\ call.result.kind = "none"
    /\ (call.op = "fit_transform" /\ ~hist.triplets) =>
          /\ call.steps = <<"fit">>
          /\ call.error.msg = "Seeds must be a list of triplets of coordinates in native space."
          /\ ~Loaded /\ ~Extracted
          /\ call.result.kind = "none"

\* fit_transform was called with a malformed seed on a masker never fitted
C4_Witness ==
    /\ call.op = "fit_transform"
    /\ ~hist.triplets
    /\ validated = None
    /\ call.error # NoError
    /\ hist.prev = "transform"

\* the last call failed in fit's check of the seeds
FitRejected ==
    /\ call.op \in {"fit", "fit_transform"}
    /\ call.steps = <<"fit">>
    /\ call.error # NoError

C10_FittedSeedsAreLastValidated ==
    /\ seeds_ = validated
    /\ Extracted => call.seeds = validated

\* after a successful fit the parameter was rebound to a malformed list, a
\* fit failed, and transform extracted with the list validated before
C10_Witness ==
    /\ call.op = "transform"
    /\ Extracted
    /\ hist.prev = "fit" /\ hist.prevFailed
    /\ ~hist.triplets
    /\ call.seeds = validated
    /\ call.seeds[1] # seeds

====
